---------------------------- MODULE Spec2Model ----------------------------
(***************************************************************************)
(* Task lifecycle coordinator of the Deepfocal dashboard:                  *)
(*   TaskProvider (contexts/TaskContext.jsx) - registry, poller, outcome   *)
(*   handlers, startTask;                                                  *)
(*   handleStartAnalysis (PremiumDashboard) - the caller layer.            *)
(* React state is modelled by its value after all queued functional        *)
(* updaters ran (runningTasks, taskResults, globalLoading) plus the value  *)
(* seen by the last render (rendered), which is what closures created in   *)
(* that render read through 'runningTasks'.                                *)
(***************************************************************************)
EXTENDS Integers, Sequences, FiniteSets, TLC

\* ------------------------------------------------------------------ bounds
MaxSubmits == 2        \* handleStartAnalysis calls that reach startTask
PollBound  == 1        \* polls of a poller that are answered with any running body
MaxStarts  == 2        \* handleStart clicks on the DeepAnalysisProgress panel
MaxFetches == 2        \* status fetches of one deep task in flight at once

\* ------------------------------------------------------- program constants
maxPolls == 150
InitialPollInterval == 2000
MediumPollInterval == 3000
SlowPollInterval == 5000
MediumAfter == 10
SlowAfter == 30
HttpConflict == 409
HttpCreated == 200
DefaultTotalReviews == 1000
FullDuration == 300000
QuickDuration == 60000

\* ------------------------------------------------------------ value spaces
Apps == {"app.a", "app.b"}
UiKinds == {"quick", "full"}          \* onStartAnalysis(appId, 'quick' | 'full')

Absent == "<undefined>"               \* a missing JSON field / undefined
NoTask == [none |-> TRUE]             \* Map.get(...) === undefined
NoData == [none |-> TRUE]
NoId == 0                             \* a missing (falsy) task id
NoStep == [op |-> "none"]

\* raw JSON values of numeric fields
AbsentNum == [k |-> "absent", n |-> 0, s |-> ""]
Num(n) == [k |-> "num", n |-> n, s |-> ""]
Str(s) == [k |-> "str", n |-> 0, s |-> s]
NaN == [k |-> "nan", n |-> 0]
Infinity == [k |-> "inf", n |-> 0]
Finite(n) == [k |-> "fin", n |-> n]

\* ------------------------------------------------- JavaScript primitives
ToLowerCase(s) ==
    CASE s = "PENDING"  -> "pending"
      [] s = "STARTED"  -> "started"
      [] s = "PROGRESS" -> "progress"
      [] s = "SUCCESS"  -> "success"
      [] s = "FAILURE"  -> "failure"
      [] s = "REVOKED"  -> "revoked"
      [] s = "RETRY"    -> "retry"
      [] s = "FULL"     -> "full"
      [] s = "QUICK"    -> "quick"
      [] s = "Progress" -> "progress"
      [] OTHER          -> s

ToUpperCase(s) ==
    CASE s = "pending"  -> "PENDING"
      [] s = "started"  -> "STARTED"
      [] s = "progress" -> "PROGRESS"
      [] s = "Progress" -> "PROGRESS"
      [] s = "success"  -> "SUCCESS"
      [] s = "failure"  -> "FAILURE"
      [] s = "revoked"  -> "REVOKED"
      [] s = "retry"    -> "RETRY"
      [] s = "full"     -> "FULL"
      [] s = "quick"    -> "QUICK"
      [] OTHER          -> s

\* a || b on strings: undefined and '' are falsy
OrElse(a, b) == IF a # Absent /\ a # "" THEN a ELSE b

\* a ?? b on raw JSON numbers
Coalesce(a, b) == IF a.k # "absent" THEN a ELSE b

\* Number.parseFloat applied to a raw JSON value
ParseFloat(raw) ==
    CASE raw.k = "num" -> Finite(raw.n)
      [] raw.k = "str" /\ raw.s = "42"       -> Finite(42)
      [] raw.k = "str" /\ raw.s = "Infinity" -> Infinity
      [] OTHER -> NaN

\* Number.parseInt(raw, 10) applied to a raw JSON value
ParseInt(raw) ==
    CASE raw.k = "num" -> Finite(raw.n)
      [] raw.k = "str" /\ raw.s = "42" -> Finite(42)
      [] OTHER -> NaN

IsFinite(x) == x.k = "fin"

Max(a, b) == IF a >= b THEN a ELSE b
Min(a, b) == IF a <= b THEN a ELSE b

\* ---------------------------------------------------------------- state
VARIABLES
    runningTasks,   \* Map appId -> task record (NoTask = no entry)
    taskResults,    \* Map appId -> result payload (NoData = no entry)
    globalLoading,
    deferredLoading, \* setGlobalLoading calls of updaters React has not run yet
    rendered,       \* what the closures of the last render read of runningTasks
    subs,           \* startTask invocations and the poller each one starts
                    \* (waited: the delays its setTimeout calls were given, summed;
                    \* heard: the event its listeners received, 0 when none yet)
    events,         \* CustomEvents dispatched on window, in order
    serverTasks,    \* remote job system: task id -> [appId, kind, state]
    last,           \* the answer (of a POST or of a poll) the last step processed
    deep            \* the DeepAnalysisProgress panel: its state, refs, timers, requests

\* ------------------------------------------------ DeepAnalysisProgress data
DeepTasks == 1..(MaxStarts + 1)       \* ids the deep-analysis endpoint hands out

TERMINAL_STATUSES == {"success", "failure", "revoked"}

\* the panel after construction: useState / useRef initial values; initialTask
\* is the id of the in-flight task passed as a prop (NoId: none), running the
\* id of a task the endpoint already runs
DeepInit(initialTask, running) ==
    [initialTask |-> initialTask,
     mounted |-> FALSE,
     taskId |-> initialTask,
     status |-> IF initialTask # NoId THEN "progress" ELSE Absent,
     isStarting |-> FALSE,
     starting |-> FALSE,                       \* the POST of handleStart is in flight
     starts |-> 0,
     pollingRef |-> 0,                         \* handle of the interval, 0 = null
     intervals |-> {},                         \* armed intervals: [h, id]
     handles |-> 0,                            \* handles setInterval has returned
     completionNotifiedRef |-> FALSE,
     fetches |-> [t \in DeepTasks |-> 0],      \* GETs of the status of t in flight
     onCompleteCalls |-> [t \in DeepTasks |-> 0],
     remote |-> [t \in DeepTasks |-> IF t = running THEN "ACTIVE" ELSE "NONE"],
     step |-> "none"]                          \* what the last step processed

vars == <<runningTasks, taskResults, globalLoading, deferredLoading, rendered,
          subs, events, serverTasks, last, deep>>

Init ==
    /\ runningTasks = [a \in Apps |-> NoTask]
    /\ taskResults = [a \in Apps |-> NoData]
    /\ globalLoading = FALSE
    /\ deferredLoading = <<>>
    /\ rendered = [a \in Apps |-> NoTask]
    /\ subs = <<>>
    /\ events = <<>>
    /\ serverTasks = <<>>
    /\ last = NoStep
    /\ deep = DeepInit(NoId, NoId)


\* the state an answer was processed in
Before ==
    [registry |-> runningTasks, results |-> taskResults, loading |-> globalLoading,
     nEvents |-> Len(events), subs |-> subs]

\* ------------------------------------------------------ response payloads
\* the review counts of a response: current_reviews / currentReviews and
\* target_reviews / totalReviews
NoCounts ==
    [current_reviews |-> AbsentNum, currentReviews |-> AbsentNum,
     target_reviews |-> AbsentNum, totalReviews |-> AbsentNum]

Counts(cr, cR, tr, tR) ==
    [current_reviews |-> cr, currentReviews |-> cR,
     target_reviews |-> tr, totalReviews |-> tR]

\* the counts that come with a reported percentage
CountsOf(pp) ==
    CASE pp = Num(42)    -> Counts(Num(50), AbsentNum, Num(120), AbsentNum)
      [] pp = Num(0 - 5) -> Counts(Num(0 - 3), AbsentNum, Str("abc"), AbsentNum)
      [] pp = Num(150)   -> Counts(Str("abc"), AbsentNum, Num(0 - 1), AbsentNum)
      [] OTHER           -> NoCounts

\* GET /api/tasks/<id>/detail/ : response.data
Body(st, pp, pP, tt, at, em, rm) ==
    LET c == IF pP = Num(70) THEN Counts(AbsentNum, Num(7), AbsentNum, Num(9))
             ELSE CountsOf(pp)
    IN [status |-> st, progress_percent |-> pp, progressPercent |-> pP,
        task_type |-> tt, analysis_type |-> at, error_message |-> em,
        result_message |-> rm,
        current_reviews |-> c.current_reviews, currentReviews |-> c.currentReviews,
        target_reviews |-> c.target_reviews, totalReviews |-> c.totalReviews]

PlainBody(st) == Body(st, AbsentNum, AbsentNum, Absent, Absent, Absent, Absent)

\* what the job system may answer for a task that is still running
ActiveBodies ==
    {PlainBody(st) : st \in {Absent, "pending", "STARTED", "PROGRESS", "RETRY"}}
  \cup
    {Body("progress", pp, AbsentNum, Absent, Absent, Absent, Absent) :
        pp \in {Num(42), Num(150), Num(0 - 5), Str("abc"), Str("Infinity")}}
  \cup
    {Body("PROGRESS", AbsentNum, Num(70), Absent, Absent, Absent, Absent),
     Body("progress", AbsentNum, AbsentNum, "FULL", Absent, Absent, Absent),
     Body("progress", AbsentNum, AbsentNum, Absent, "quick", Absent, Absent),
     Body("progress", AbsentNum, AbsentNum, Absent, Absent, Absent, "Fetching reviews")}

\* the answers of a long-running task with nothing new to report: its status, with
\* no percentage or an unusable one, or a body without a status
QuietBodies ==
    {PlainBody("PROGRESS"), PlainBody(Absent),
     Body("progress", Str("abc"), AbsentNum, Absent, Absent, Absent, Absent)}

\* what it may answer once the task reached the terminal state st
TerminalBodies(st) ==
    CASE st = "SUCCESS" ->
           {PlainBody("SUCCESS"), PlainBody("success"),
            Body("SUCCESS", AbsentNum, AbsentNum, "FULL", Absent, Absent, Absent)}
      [] st = "FAILURE" ->
           {PlainBody("FAILURE"),
            Body("failure", AbsentNum, AbsentNum, Absent, Absent, "boom", Absent)}
      [] OTHER ->
           {PlainBody("REVOKED")}

PlainTerminalBodies == {PlainBody("SUCCESS"), PlainBody("FAILURE"), PlainBody("REVOKED")}

\* a failed request (axios rejects): error.message
PollError == [error |-> "Network Error"]

\* POST /api/analysis/start/ answered 409: error.response.data
Conflict(id, ts, tt) == [existing_task_id |-> id, task_status |-> ts, task_type |-> tt]

\* ------------------------------------------------------------------ React
\* what a closure reads of a record of its render: currentTask?.analysisType
Snapshot(task) == IF task = NoTask THEN NoTask ELSE [analysisType |-> task.analysisType]

\* no state update is pending: the last render shows the current registry and every
\* queued updater has run
Committed ==
    /\ rendered = [a \in Apps |-> Snapshot(runningTasks[a])]
    /\ deferredLoading = <<>>

\* ------------------------------------------------------------ remote jobs
ServerActive(appId) ==
    {t \in DOMAIN serverTasks :
        serverTasks[t].appId = appId /\ serverTasks[t].state = "ACTIVE"}

ServerBodies(taskId) ==
    IF serverTasks[taskId].state = "ACTIVE"
    THEN ActiveBodies
    ELSE TerminalBodies(serverTasks[taskId].state)

ServerConflicts(taskId) ==
    {Conflict(taskId, "PROGRESS", serverTasks[taskId].kind),
     Conflict(taskId, "PROGRESS", ToUpperCase(serverTasks[taskId].kind)),
     Conflict(taskId, "started", serverTasks[taskId].kind),
     Conflict(taskId, Absent, Absent)}

\* the job system finishes a running task
ServerFinish(t, outcome) ==
    /\ Committed
    /\ serverTasks[t].state = "ACTIVE"
    /\ \E i \in DOMAIN subs :
          \/ subs[i].pc = "inflight" /\ subs[i].taskId = t
          \/ subs[i].pc = "post" /\ subs[i].appId = serverTasks[t].appId
    /\ serverTasks' = [serverTasks EXCEPT ![t].state = outcome]
    /\ UNCHANGED deep
    /\ last' = NoStep
    /\ UNCHANGED <<runningTasks, taskResults, globalLoading, deferredLoading, rendered,
                   subs, events>>

\* ------------------------------------------------------------ TaskContext
\* variant: a guard that never sees a record
IsTaskRunningNoGuard(appId) == FALSE

IsTaskRunning(appId) == rendered[appId] # NoTask

NormalizedType(analysisType) == ToLowerCase(OrElse(analysisType, "quick"))

\* (status || '').toString().toUpperCase()
normalizeStatus(status) == ToUpperCase(OrElse(status, ""))

getStatusMessage(status) ==
    CASE normalizeStatus(status) \in {"PENDING", "STARTED"} -> "Queued for processing..."
      [] normalizeStatus(status) = "PROGRESS" -> "Analyzing reviews..."
      [] normalizeStatus(status) = "SUCCESS" -> "Analysis complete!"
      [] normalizeStatus(status) \in {"FAILURE", "REVOKED"} -> "Analysis failed"
      [] OTHER -> "Processing..."

\* estimatedDuration: type === 'full' ? 300000 : 60000
EstimatedDuration(type) == IF type = "full" THEN FullDuration ELSE QuickDuration

\* the project of the dashboard, handed to startTask as projectId
selectedProjectId == "project.1"

\* the record startTask inserts after a successful POST; now stands for new Date():
\* the inserts of different calls happen at different instants
NewTask(taskId, appId, normalizedType, now) ==
    [taskId |-> taskId, appId |-> appId, projectId |-> selectedProjectId,
     analysisType |-> normalizedType, status |-> "pending", progress |-> 0,
     startTime |-> now,
     step |-> "Initializing analysis...",
     estimatedDuration |-> EstimatedDuration(normalizedType),
     currentReviews |-> AbsentNum, totalReviews |-> AbsentNum]

ExistingTaskId(conflict) == conflict.existing_task_id

\* variant: any 409 is taken for a running task
IsConflictAnyBody(response) == response.status = HttpConflict

\* error.response?.status === 409 && error.response?.data?.existing_task_id
IsConflict(response) ==
    response.status = HttpConflict /\ ExistingTaskId(response.data) # NoId

ExistingStatus(conflict) == OrElse(conflict.task_status, "pending")

\* variant: the kind the server names is ignored
ExistingTypeRequested(conflict, normalizedType) ==
    ToLowerCase(OrElse(normalizedType, "quick"))

\* variant: a 409 without a type is taken for a quick task
ExistingTypeQuick(conflict, normalizedType) ==
    ToLowerCase(OrElse(conflict.task_type, "quick"))

ExistingType(conflict, normalizedType) ==
    ToLowerCase(OrElse(conflict.task_type, OrElse(normalizedType, "quick")))

\* the record startTask inserts when the POST is answered 409
AdoptedTask(conflict, appId, normalizedType, now) ==
    [taskId |-> ExistingTaskId(conflict), appId |-> appId,
     projectId |-> selectedProjectId, startTime |-> now,
     analysisType |-> ExistingType(conflict, normalizedType),
     status |-> ExistingStatus(conflict), progress |-> 0,
     step |-> getStatusMessage(ExistingStatus(conflict)),
     estimatedDuration |-> EstimatedDuration(ExistingType(conflict, normalizedType)),
     currentReviews |-> AbsentNum, totalReviews |-> AbsentNum]

\* variant: a missing status is not defaulted
PollStatusNoDefault(data) == ToLowerCase(data.status)

\* variant: the status is compared as it came
PollStatusRaw(data) == OrElse(data.status, "pending")

\* const status = (data.status || 'pending').toLowerCase()
PollStatus(data) == ToLowerCase(OrElse(data.status, "pending"))

\* variant: no upper bound
ClampLowerOnly(x) == Max(0, x)

Clamp(x) == Max(0, Min(100, x))

NextProgress(existingTask, data) ==
    LET parsedProgress == ParseFloat(Coalesce(data.progress_percent, data.progressPercent))
    IN IF IsFinite(parsedProgress)
       THEN Clamp(parsedProgress.n)
       ELSE IF existingTask.progress # 0 THEN existingTask.progress ELSE 0

TaskType(existingTask, data) ==
    ToLowerCase(OrElse(data.task_type,
                OrElse(data.analysis_type,
                OrElse(existingTask.analysisType, "quick"))))

\* variant: a negative count is stored
ClampCountNone(n) == n

\* Math.max(parsed, 0)
ClampCount(n) == Max(n, 0)

\* nextCurrent: isFinite(parsedCurrent) ? max(parsedCurrent, 0) : existing ?? 0
NextCurrent(existingTask, data) ==
    LET parsedCurrent == ParseInt(Coalesce(data.current_reviews, data.currentReviews))
    IN IF IsFinite(parsedCurrent) THEN Num(ClampCount(parsedCurrent.n))
       ELSE Coalesce(existingTask.currentReviews, Num(0))

\* nextTotal: isFinite(parsedTotal) ? max(parsedTotal, 0) : existing ?? 1000
NextTotal(existingTask, data) ==
    LET parsedTotal == ParseInt(Coalesce(data.target_reviews, data.totalReviews))
    IN IF IsFinite(parsedTotal) THEN Num(ClampCount(parsedTotal.n))
       ELSE Coalesce(existingTask.totalReviews, Num(DefaultTotalReviews))

\* step: data.result_message || data.status || getStatusMessage(status)
Step(data) ==
    OrElse(data.result_message, OrElse(data.status, getStatusMessage(PollStatus(data))))

\* variant: the estimated duration follows the kind
UpdatedTaskReestimated(existingTask, data) ==
    [existingTask EXCEPT !.analysisType = TaskType(existingTask, data),
                         !.status = PollStatus(data),
                         !.progress = NextProgress(existingTask, data),
                         !.step = Step(data),
                         !.currentReviews = NextCurrent(existingTask, data),
                         !.totalReviews = NextTotal(existingTask, data),
                         !.estimatedDuration =
                             EstimatedDuration(TaskType(existingTask, data))]

UpdatedTask(existingTask, data) ==
    [existingTask EXCEPT !.analysisType = TaskType(existingTask, data),
                         !.status = PollStatus(data),
                         !.progress = NextProgress(existingTask, data),
                         !.step = Step(data),
                         !.currentReviews = NextCurrent(existingTask, data),
                         !.totalReviews = NextTotal(existingTask, data)]

\* variant: the update does not test newMap.has(appId)
PollUpdateUpsert(prev, appId, data) ==
    [prev EXCEPT ![appId] =
        UpdatedTask(IF prev[appId] # NoTask THEN prev[appId]
                    ELSE NewTask(NoId, appId, "quick", 0), data)]

\* the functional updaters handed to setRunningTasks
PollUpdate(prev, appId, data) ==
    IF prev[appId] # NoTask
    THEN [prev EXCEPT ![appId] = UpdatedTask(prev[appId], data)]
    ELSE prev

\* variant: the copy is returned without the delete
RemoveTaskKept(prev, appId) == prev

\* variant: the map is cleared
RemoveTaskAll(prev, appId) == [a \in Apps |-> NoTask]

RemoveTask(prev, appId) == [prev EXCEPT ![appId] = NoTask]

InsertTask(prev, appId, task) == [prev EXCEPT ![appId] = task]

\* variant: a stored result is not replaced
StoreResultOnce(prev, appId, result) ==
    IF prev[appId] = NoData THEN [prev EXCEPT ![appId] = result] ELSE prev

\* the updater handleTaskSuccess hands to setTaskResults
StoreResult(prev, appId, result) == [prev EXCEPT ![appId] = result]

getTaskResult(appId) == taskResults[appId]

\* variant: the whole store is emptied
ClearResultAll(prev, appId) == [a \in Apps |-> NoData]

\* the updater clearTaskResult hands to setTaskResults
ClearResult(prev, appId) == [prev EXCEPT ![appId] = NoData]

MapSize(m) == Cardinality({a \in Apps : m[a] # NoTask})

\* resolvedType of handleTaskSuccess; currentTask is the closure's runningTasks.get(appId)
ResolvedTypeSuccess(result, currentTask) ==
    ToLowerCase(OrElse(result.task_type,
                OrElse(IF currentTask = NoTask THEN Absent ELSE currentTask.analysisType,
                       "quick")))

\* resolvedType of handleTaskFailure and handleTaskTimeout
ResolvedType(currentTask) ==
    ToLowerCase(OrElse(IF currentTask = NoTask THEN Absent ELSE currentTask.analysisType,
                       "quick"))

\* variant: thresholds compared with >=
NextPollIntervalEarly(pollInterval, pollCount) ==
    IF pollCount >= SlowAfter THEN SlowPollInterval
    ELSE IF pollCount >= MediumAfter THEN MediumPollInterval
    ELSE pollInterval

\* pollInterval after pollCount++ in the continue branch
NextPollInterval(pollInterval, pollCount) ==
    IF pollCount > SlowAfter THEN SlowPollInterval
    ELSE IF pollCount > MediumAfter THEN MediumPollInterval
    ELSE pollInterval

IsTerminalSuccess(status) == status = "success"
\* variant: revoked is not treated as an ending
IsTerminalFailureOnly(status) == status = "failure"

IsTerminalFailure(status) == status = "failure" \/ status = "revoked"
IsContinue(status) == status = "pending" \/ status = "started" \/ status = "progress"
\* variant: the cap is compared with <=
CapReachedLate(pollCount) == ~(pollCount <= maxPolls)

CapReached(pollCount) == ~(pollCount < maxPolls)


\* ------------------------------------------------- Notification Bus (window)
\* variant: the caught error is passed on whole
FailurePayloadWhole(data) ==
    IF data # PollError /\ data.error_message # Absent /\ data.error_message # ""
    THEN [message |-> data.error_message]
    ELSE [object |-> data]

\* the error payload of taskFailed: data.error_message || data, or error.message
FailurePayload(data) ==
    IF data = PollError THEN [message |-> data.error]
    ELSE IF data.error_message # Absent /\ data.error_message # ""
         THEN [message |-> data.error_message]
         ELSE [object |-> data]

\* variant: the listeners do not look at event.detail.appId
CleanupListenersUnfiltered(s, appId) ==
    [i \in DOMAIN s |-> [s[i] EXCEPT !.listening = FALSE]]

\* listeners filter on event.detail.appId and deregister their set when they fire
CleanupListeners(s, appId) ==
    [i \in DOMAIN s |->
        IF s[i].listening /\ s[i].appId = appId
        THEN [s[i] EXCEPT !.listening = FALSE, !.heard = Len(events) + 1]
        ELSE s[i]]

\* window.dispatchEvent(new CustomEvent(type, {detail})) by the poller of s[i]
Dispatch(i, s, type, analysisType, result, error) ==
    LET e == [type |-> type, appId |-> s[i].appId, analysisType |-> analysisType,
              result |-> result, error |-> error, src |-> i]
    IN /\ events' = Append(events, e)
       /\ subs' = CleanupListeners(s, s[i].appId)

\* --------------------------------------------------- outcome handlers
\* setRunningTasks((prev) => { ...delete(appId); setGlobalLoading(newMap.size > 0);
\* return newMap }): prev is the registry the updater is applied to. React runs the
\* updater inside setRunningTasks when no update is queued, and in the next render
\* when one is (queued): its setGlobalLoading then lands after the calls made
\* directly in the meantime
DeleteUpdater(prev, appId, queued) ==
    /\ runningTasks' = RemoveTask(prev, appId)
    /\ IF queued
       THEN /\ deferredLoading' = <<MapSize(RemoveTask(prev, appId)) > 0>>
            /\ UNCHANGED globalLoading
       ELSE /\ globalLoading' = (MapSize(RemoveTask(prev, appId)) > 0)
            /\ UNCHANGED deferredLoading

\* called by poll() after it queued its own update of the registry
handleTaskSuccess(i, s, prev, result) ==
    /\ DeleteUpdater(prev, s[i].appId, TRUE)
    /\ taskResults' = StoreResult(taskResults, s[i].appId, result)
    /\ Dispatch(i, s, "taskCompleted",
                ResolvedTypeSuccess(result, s[i].currentTask), result, NoData)

\* variant: a failure also drops the stored result of the subject
handleTaskFailureForgetting(i, s, prev, error, queued) ==
    /\ DeleteUpdater(prev, s[i].appId, queued)
    /\ taskResults' = [taskResults EXCEPT ![s[i].appId] = NoData]
    /\ Dispatch(i, s, "taskFailed", ResolvedType(s[i].currentTask), NoData, error)

\* called by poll() after its update of the registry (queued), or by its catch
handleTaskFailure(i, s, prev, error, queued) ==
    /\ DeleteUpdater(prev, s[i].appId, queued)
    /\ UNCHANGED taskResults
    /\ Dispatch(i, s, "taskFailed", ResolvedType(s[i].currentTask), NoData, error)

handleTaskTimeout(i, s, prev) ==
    /\ DeleteUpdater(prev, s[i].appId, TRUE)
    /\ UNCHANGED taskResults
    /\ Dispatch(i, s, "taskTimeout", ResolvedType(s[i].currentTask), NoData, NoData)

\* ------------------------------------------------------------- the poller
\* variant: the counter and the interval are not local to the call
StartPollerResumed(sub, taskId) ==
    [sub EXCEPT !.taskId = taskId, !.pc = "inflight"]

\* pollTaskStatus(taskId, appId): fresh pollInterval / pollCount, first poll() at once
StartPoller(sub, taskId) ==
    [sub EXCEPT !.taskId = taskId, !.pollInterval = InitialPollInterval,
                !.pollCount = 0, !.waited = 0, !.pc = "inflight"]

\* one run of poll() on the response data of its GET
Poll(i, data) ==
    LET status == PollStatus(data)
        appId == subs[i].appId
        updated == PollUpdate(runningTasks, appId, data)
        count == subs[i].pollCount + 1
        interval == NextPollInterval(subs[i].pollInterval, count)
        ended == [subs EXCEPT ![i].pc = "done"]
    IN IF IsTerminalSuccess(status) THEN
           handleTaskSuccess(i, ended, updated, data)
       ELSE IF IsTerminalFailure(status) THEN
           handleTaskFailure(i, ended, updated, FailurePayload(data), TRUE)
       ELSE IF IsContinue(status) THEN
           IF ~CapReached(count) THEN
               /\ runningTasks' = updated
               /\ subs' = [subs EXCEPT ![i].pollCount = count,
                                       ![i].pollInterval = interval,
                                       ![i].waited = subs[i].waited + interval,
                                       ![i].pc = "timer"]
               /\ UNCHANGED <<taskResults, globalLoading, deferredLoading, events>>
           ELSE
               handleTaskTimeout(i, [ended EXCEPT ![i].pollCount = count,
                                                  ![i].pollInterval = interval], updated)
       ELSE
           /\ runningTasks' = updated
           /\ subs' = [subs EXCEPT ![i].pc = "stalled"]
           /\ UNCHANGED <<taskResults, globalLoading, deferredLoading, events>>

\* exploration bound: a lifecycle that runs alone draws any running body in its first
\* PollBound polls and the quiet body from then on, up to the iteration cap; when
\* two submissions were made, each poller gets PollBound quiet answers; beyond two,
\* the pollers are answered with endings only
MayAnswer(i, data) ==
    \/ Len(subs) = 1 /\ data \notin ActiveBodies
    \/ Len(subs) = 1 /\ (subs[i].pollCount < PollBound \/ data \in QuietBodies)
    \/ Len(subs) > 1 /\ data \in PlainTerminalBodies
    \/ Len(subs) = 2 /\ subs[i].pollCount < PollBound /\ data = PlainBody("PROGRESS")

\* the GET of poller i is answered
PollResponse(i, data) ==
    /\ Committed
    /\ subs[i].pc = "inflight"
    /\ data \in ServerBodies(subs[i].taskId)
    /\ MayAnswer(i, data)
    /\ UNCHANGED deep
    /\ last' = [op |-> "poll", src |-> i, data |-> data,
                before |-> runningTasks[subs[i].appId],
                interval |-> subs[i].pollInterval, pre |-> Before]
    /\ Poll(i, data)
    /\ UNCHANGED <<rendered, serverTasks>>

\* the GET of poller i fails: catch (error) { handleTaskFailure(appId, error.message) }
PollFails(i) ==
    /\ Committed
    /\ subs[i].pc = "inflight"
    /\ UNCHANGED deep
    /\ last' = [op |-> "poll", src |-> i, data |-> PollError,
                before |-> runningTasks[subs[i].appId],
                interval |-> subs[i].pollInterval, pre |-> Before]
    /\ handleTaskFailure(i, [subs EXCEPT ![i].pc = "done"],
                         runningTasks, FailurePayload(PollError), FALSE)
    /\ UNCHANGED <<rendered, serverTasks>>

\* setTimeout(poll, pollInterval) fires: the next GET is issued
TimerFires(i) ==
    /\ Committed
    /\ subs[i].pc = "timer"
    /\ subs' = [subs EXCEPT ![i].pc = "inflight"]
    /\ UNCHANGED deep
    /\ last' = NoStep
    /\ UNCHANGED <<runningTasks, taskResults, globalLoading, deferredLoading, rendered,
                   events, serverTasks>>

\* ---------------------------------------------------------------- startTask
\* the part of startTask after 'await apiClient.post(...)', and the part of
\* handleStartAnalysis after 'await startTask(...)', for the POST of subs[i]
\* answered by response
startTask(i, response) ==
    LET sub == subs[i]
        appId == sub.appId
        started(task) ==
            /\ runningTasks' = InsertTask(runningTasks, appId, task)
            /\ globalLoading' = TRUE
            /\ subs' = [subs EXCEPT ![i] =
                          [StartPoller(sub, task.taskId) EXCEPT
                              !.listening = TRUE,
                              !.kind = task.analysisType,
                              !.adopted = (response.status = HttpConflict)]]
    IN IF response.status = HttpCreated THEN
           /\ started(NewTask(response.task_id, appId, sub.analysisType, i))
           /\ UNCHANGED <<taskResults, deferredLoading, events>>
       ELSE IF IsConflict(response) THEN
           /\ started(AdoptedTask(response.data, appId, sub.analysisType, i))
           /\ UNCHANGED <<taskResults, deferredLoading, events>>
       ELSE
           /\ subs' = [subs EXCEPT ![i].pc = "rejected"]
           /\ UNCHANGED <<runningTasks, taskResults, globalLoading, deferredLoading,
                          events>>

\* the POST of subs[i] is answered: startTask resumes on the response
PostAnswered(i, response) ==
    /\ UNCHANGED deep
    /\ last' = [op |-> "post", src |-> i, response |-> response,
                before |-> runningTasks[subs[i].appId],
                active |-> ServerActive(subs[i].appId), pre |-> Before]
    /\ startTask(i, response)

\* the answer of a POST is handled after the render of the earlier updates, or in
\* one batch with the ending of a poller (before React rendered it)
MayResume == Committed \/ deferredLoading # <<>>

\* the job system creates the task and answers the POST of subs[i]
PostCreated(i) ==
    /\ MayResume
    /\ subs[i].pc = "post"
    /\ ServerActive(subs[i].appId) = {}
    /\ serverTasks' = Append(serverTasks,
           [appId |-> subs[i].appId, kind |-> subs[i].analysisType, state |-> "ACTIVE"])
    /\ PostAnswered(i, [status |-> HttpCreated, task_id |-> Len(serverTasks) + 1,
                        data |-> NoData])
    /\ UNCHANGED rendered

\* the job system already runs a task for the subject: it answers 409
PostConflict(i, conflict) ==
    /\ MayResume
    /\ subs[i].pc = "post"
    /\ \E t \in ServerActive(subs[i].appId) : conflict \in ServerConflicts(t)
    /\ PostAnswered(i, [status |-> HttpConflict, task_id |-> NoId, data |-> conflict])
    /\ UNCHANGED <<rendered, serverTasks>>

\* the POST fails: no response (status 0), or a 409 that names no existing task
PostFails(i, status) ==
    /\ MayResume
    /\ subs[i].pc = "post"
    /\ status \in {0, HttpConflict}
    /\ PostAnswered(i, [status |-> status, task_id |-> NoId,
                        data |-> Conflict(NoId, Absent, Absent)])
    /\ UNCHANGED <<rendered, serverTasks>>

\* ------------------------------------------------------ handleStartAnalysis
\* exploration bound on the submissions: the subjects being interchangeable, the
\* first click is on app.a; a long chain is not followed by further submissions
\* unless it ran into the iteration cap; beyond two submissions, a click repeats
\* the first submission after the earlier pollers ended
MaySubmit(appId, analysisType) ==
    /\ Len(subs) < MaxSubmits
    /\ \A j \in DOMAIN subs : subs[j].pollCount <= PollBound \/ subs[j].pollCount = maxPolls
    /\ Len(subs) = 0 => appId = "app.a"
    /\ Len(subs) >= 2 =>
          /\ \A j \in DOMAIN subs : subs[j].pc \in {"done", "rejected", "stalled"}
          /\ appId = subs[1].appId
          /\ NormalizedType(analysisType) = subs[1].analysisType

\* exploration bound: a click that the guard turns away is explored when no update
\* is pending, it does not follow another such click, and no further submission
\* could be made
MayReject(appId) ==
    /\ Committed
    /\ last.op # "click"
    /\ Len(subs) = MaxSubmits

\* a click on 'quick' or 'full' for appId (in a project, outside demo mode): the
\* early return on isTaskRunning(appId), or else the call up to the POST being issued
handleStartAnalysis(appId, analysisType) ==
    IF IsTaskRunning(appId) THEN
        /\ MayReject(appId)
        /\ UNCHANGED deep
        /\ last' = [op |-> "click", appId |-> appId, pre |-> Before]
        /\ UNCHANGED <<runningTasks, taskResults, globalLoading, deferredLoading,
                       rendered, subs, events, serverTasks>>
    ELSE
        /\ MaySubmit(appId, analysisType)
        /\ subs' = Append(subs,
               [appId |-> appId, analysisType |-> NormalizedType(analysisType),
                currentTask |-> rendered[appId], pc |-> "post", taskId |-> NoId,
                adopted |-> FALSE, kind |-> Absent, pollCount |-> 0,
                pollInterval |-> 0, listening |-> FALSE, waited |-> 0, heard |-> 0,
                resubmit |-> \E j \in DOMAIN subs :
                                subs[j].appId = appId /\ subs[j].pc = "done"])
        /\ UNCHANGED deep
        /\ last' = NoStep
        /\ UNCHANGED <<runningTasks, taskResults, globalLoading, deferredLoading,
                       rendered, events, serverTasks>>

\* ----------------------------------------------------------- clearTaskResult
\* exploration bound: nothing but getTaskResult reads taskResults, so the clears are
\* explored once the last submission was made: a caller clears either subject
\* right after a poller ended in success, and clears the same subject again
MayClear(appId) ==
    \/ /\ last.op = "poll"
       /\ Len(subs) = MaxSubmits
       /\ subs[last.src].pc = "done"
       /\ last.data # PollError
       /\ IsTerminalSuccess(PollStatus(last.data))
    \/ last.op = "clear" /\ last.appId = appId

clearTaskResult(appId) ==
    /\ MayClear(appId)
    /\ taskResults' = ClearResult(taskResults, appId)
    /\ UNCHANGED deep
    /\ last' = [op |-> "clear", appId |-> appId, pre |-> Before]
    /\ UNCHANGED <<runningTasks, globalLoading, deferredLoading, rendered, subs, events,
                   serverTasks>>

\* React commits the render a state update scheduled: closures created from now on
\* see the current registry. Only a click can still be served by the handlers of the
\* previous render (no other step reads 'rendered'), so the other steps wait for it.
Render ==
    /\ ~Committed
    /\ rendered' = [a \in Apps |-> Snapshot(runningTasks[a])]
    /\ globalLoading' = IF deferredLoading # <<>> THEN deferredLoading[1] ELSE globalLoading
    /\ deferredLoading' = <<>>
    /\ UNCHANGED deep
    /\ last' = NoStep
    /\ UNCHANGED <<runningTasks, taskResults, subs, events, serverTasks>>

Next ==
    \/ \E a \in Apps, k \in UiKinds : handleStartAnalysis(a, k)
    \/ \E i \in DOMAIN subs : PostCreated(i)
    \/ \E i \in DOMAIN subs : \E t \in DOMAIN serverTasks :
          \E c \in ServerConflicts(t) : PostConflict(i, c)
    \/ \E i \in DOMAIN subs : \E st \in {0, HttpConflict} : PostFails(i, st)
    \/ \E i \in DOMAIN subs : \E t \in DOMAIN serverTasks :
          \E d \in ServerBodies(t) : PollResponse(i, d)
    \/ \E i \in DOMAIN subs : PollFails(i)
    \/ \E i \in DOMAIN subs : TimerFires(i)
    \/ \E t \in DOMAIN serverTasks :
          \E o \in {"SUCCESS", "FAILURE", "REVOKED"} : ServerFinish(t, o)
    \/ \E a \in Apps : clearTaskResult(a)
    \/ Render

Spec == Init /\ [][Next]_vars

\* the GET of poller i settles: with a response or with an error
GetSettles(i) ==
    /\ i \in DOMAIN subs
    /\ \/ PollFails(i)
       \/ \E t \in DOMAIN serverTasks : \E d \in ServerBodies(t) : PollResponse(i, d)

\* the timer of poller i fires
TimerElapses(i) == i \in DOMAIN subs /\ TimerFires(i)

\* every request settles, every timer fires, React renders what was scheduled
LiveSpec ==
    /\ Init /\ [][Next]_vars
    /\ WF_vars(Render)
    /\ \A i \in 1..MaxSubmits : WF_vars(GetSettles(i)) /\ WF_vars(TimerElapses(i))

\* ===================================================== DeepAnalysisProgress
mainVars == <<runningTasks, taskResults, globalLoading, deferredLoading, rendered,
              subs, events, serverTasks, last>>

stopPolling(d) ==
    IF d.pollingRef # 0
    THEN [d EXCEPT !.intervals = {x \in @ : x.h # d.pollingRef}, !.pollingRef = 0]
    ELSE d

isTerminal(state) ==
    ToLowerCase(IF state = Absent THEN "" ELSE state) \in TERMINAL_STATUSES

handleCompletion(d, id) ==
    IF d.completionNotifiedRef
    THEN d
    ELSE [d EXCEPT !.completionNotifiedRef = TRUE, !.onCompleteCalls[id] = @ + 1]

\* fetchStatus(id) up to its await: the GET leaves
fetchStatus(d, id) == [d EXCEPT !.fetches[id] = @ + 1]

startPolling(d, id) ==
    LET stopped == fetchStatus(stopPolling(d), id)
        h == stopped.handles + 1
    IN [stopped EXCEPT !.handles = h, !.pollingRef = h,
                       !.intervals = @ \cup {[h |-> h, id |-> id]}]

buttonDisabled(d) == d.isStarting \/ (d.taskId # NoId /\ ~isTerminal(d.status))

\* what the start endpoint answers: the task it already runs, or a new one
StartResponses(d) ==
    IF \E t \in DeepTasks : d.remote[t] = "ACTIVE"
    THEN {[task_id |-> t, status |-> "already_running"] :
             t \in {u \in DeepTasks : d.remote[u] = "ACTIVE"}}
    ELSE LET fresh == {u \in DeepTasks : d.remote[u] = "NONE"}
         IN {[task_id |-> t, status |-> st] :
                t \in {u \in fresh : \A v \in fresh : u <= v},
                st \in {"pending", Absent}}

\* what the status endpoint answers for task t
DeepStatusOf(d, t) ==
    CASE d.remote[t] = "SUCCESS" -> "success"
      [] d.remote[t] = "FAILURE" -> "failure"
      [] d.remote[t] = "REVOKED" -> "revoked"
      [] OTHER -> "progress"

\* the resume effect of the first render
Mount ==
    /\ ~deep.mounted
    /\ deep' = LET d == [deep EXCEPT !.mounted = TRUE, !.step = "none"]
               IN IF d.initialTask # NoId /\ ~isTerminal(d.status)
                  THEN startPolling(d, d.initialTask)
                  ELSE d
    /\ UNCHANGED mainVars

\* the button: handleStart up to the await of the POST
handleStart ==
    /\ deep.mounted
    /\ ~buttonDisabled(deep)
    /\ deep.starts < MaxStarts
    /\ deep' = [deep EXCEPT !.isStarting = TRUE, !.starting = TRUE,
                            !.completionNotifiedRef = FALSE,
                            !.starts = @ + 1, !.step = "none"]
    /\ UNCHANGED mainVars

\* handleStart after the await: the POST was answered
StartAnswered(response) ==
    /\ deep.starting
    /\ response \in StartResponses(deep)
    /\ deep' = LET newTaskId == response.task_id
                   normalizedStatus ==
                       IF response.status \in {"already_running", "already_running_full"}
                       THEN "progress"
                       ELSE IF response.status = Absent THEN "pending"
                            ELSE response.status
                   d == [deep EXCEPT !.remote[newTaskId] = "ACTIVE",
                                     !.taskId = newTaskId,
                                     !.status = normalizedStatus,
                                     !.starting = FALSE, !.isStarting = FALSE,
                                     !.step = "none"]
               IN startPolling(d, newTaskId)
    /\ UNCHANGED mainVars

\* handleStart after the await: the POST failed
StartFails ==
    /\ deep.starting
    /\ deep' = [deep EXCEPT !.starting = FALSE, !.isStarting = FALSE, !.step = "none"]
    /\ UNCHANGED mainVars

\* an armed interval fires: one more fetchStatus(id), whatever is still in flight
IntervalFires(x) ==
    /\ x \in deep.intervals
    /\ deep.fetches[x.id] < MaxFetches
    /\ deep' = [fetchStatus(deep, x.id) EXCEPT !.step = "none"]
    /\ UNCHANGED mainVars

\* fetchStatus(id) after the await: the GET was answered
StatusAnswered(id) ==
    /\ deep.fetches[id] > 0
    /\ deep' = LET status == DeepStatusOf(deep, id)
                   d == [deep EXCEPT !.fetches[id] = @ - 1, !.status = status]
               IN IF isTerminal(status)
                  THEN [(IF status = "success"
                         THEN handleCompletion(stopPolling(d), id)
                         ELSE stopPolling(d))
                        EXCEPT !.step = "terminal"]
                  ELSE [d EXCEPT !.step = "none"]
    /\ UNCHANGED mainVars

\* fetchStatus(id) after the await: the GET failed
StatusFails(id) ==
    /\ deep.fetches[id] > 0
    /\ deep' = [stopPolling([deep EXCEPT !.fetches[id] = @ - 1]) EXCEPT !.step = "error"]
    /\ UNCHANGED mainVars

\* the job system ends a deep task
DeepFinish(t, outcome) ==
    /\ deep.remote[t] = "ACTIVE"
    /\ deep' = [deep EXCEPT !.remote[t] = outcome, !.step = "none"]
    /\ UNCHANGED mainVars

DeepStart ==
    /\ runningTasks = [a \in Apps |-> NoTask]
    /\ taskResults = [a \in Apps |-> NoData]
    /\ globalLoading = FALSE
    /\ deferredLoading = <<>>
    /\ rendered = [a \in Apps |-> NoTask]
    /\ subs = <<>>
    /\ events = <<>>
    /\ serverTasks = <<>>
    /\ last = NoStep
    /\ deep \in {DeepInit(NoId, NoId), DeepInit(NoId, 1), DeepInit(1, 1)}

DeepNext ==
    \/ Mount
    \/ handleStart
    \/ \E r \in StartResponses(deep) : StartAnswered(r)
    \/ StartFails
    \/ \E x \in deep.intervals : IntervalFires(x)
    \/ \E t \in DeepTasks : StatusAnswered(t)
    \/ \E t \in DeepTasks : StatusFails(t)
    \/ \E t \in DeepTasks : \E o \in {"SUCCESS", "FAILURE", "REVOKED"} : DeepFinish(t, o)

DeepSpec == DeepStart /\ [][DeepNext]_vars

\* ================================================================ properties
\* the events dispatched by the poller of subs[i]
EventsBy(i) == {n \in DOMAIN events : events[n].src = i}

\* the events dispatched by pollers of the remote task t
EventsOfTask(t) == {n \in DOMAIN events : subs[events[n].src].taskId = t}

LastEvent == events[Len(events)]

\* the last step processed the answer of a GET (not a transport error)
PolledBody == last.op = "poll" /\ last.data # PollError

\* a kind in its lower-case spelling, written out
CanonicalKind(k) ==
    IF k \in {"full", "FULL"} THEN "full"
    ELSE IF k \in {"quick", "QUICK"} THEN "quick"
    ELSE k

C2_ExactlyOneEventPerLifecycle ==
    /\ \A t \in DOMAIN serverTasks : Cardinality(EventsOfTask(t)) <= 1
    /\ \A i \in DOMAIN subs : subs[i].pc = "done" => EventsBy(i) # {}

\* C3: right after a poller processed a response whose normalized status is success,
\* failure or revoked, the registry holds no record for the subject and the poller
\* has neither a timer nor a request pending.
C3_TerminalStatusRemovesRecord ==
    (PolledBody /\ PollStatus(last.data) \in {"success", "failure", "revoked"}) =>
        /\ runningTasks[subs[last.src].appId] = NoTask
        /\ subs[last.src].pc = "done"

\* a live record removed on a revoked response
C3_Witness ==
    /\ PolledBody
    /\ PollStatus(last.data) = "revoked"
    /\ last.before # NoTask
    /\ runningTasks[subs[last.src].appId] = NoTask
    /\ subs[last.src].pc = "done"

\* C4: after the n-th non-terminal (pending, started, progress) response of a poller:
\* for n = 1..149 the next poll is scheduled, the record (if it was live) is still
\* live and the poller has dispatched nothing; for n = 150 the record is removed,
\* the poller dispatched taskTimeout as its only event and schedules nothing. No
\* poller waits or polls with 150 responses counted.
C4_TimeoutAtPoll150 ==
    /\ (PolledBody /\ PollStatus(last.data) \in {"pending", "started", "progress"}) =>
          LET i == last.src
              app == subs[i].appId
              n == subs[i].pollCount
          IN /\ n \in 1..150
             /\ n <= 149 =>
                   /\ subs[i].pc = "timer"
                   /\ last.before # NoTask => runningTasks[app] # NoTask
                   /\ EventsBy(i) = {}
             /\ n = 150 =>
                   /\ subs[i].pc = "done"
                   /\ runningTasks[app] = NoTask
                   /\ EventsBy(i) = {Len(events)}
                   /\ LastEvent.type = "taskTimeout"
    /\ \A i \in DOMAIN subs :
          subs[i].pc \in {"timer", "inflight"} => subs[i].pollCount <= 149

\* the 150th non-terminal response of a poller whose record was live
C4_Witness ==
    /\ PolledBody
    /\ PollStatus(last.data) = "progress"
    /\ subs[last.src].pollCount = 150
    /\ last.before # NoTask
    /\ runningTasks[subs[last.src].appId] = NoTask
    /\ LastEvent.type = "taskTimeout"

\* C5: the timer set after the n-th non-terminal response waits 2000 ms for
\* n = 1..10, 3000 ms for n = 11..30 and 5000 ms for n = 31..149; a response never
\* lowers the interval; the first GET is issued by startTask itself, with no timer.
C5_BackoffSchedule ==
    /\ \A i \in DOMAIN subs :
          subs[i].pc = "timer" =>
             /\ subs[i].pollCount \in 1..149
             /\ subs[i].pollInterval =
                   IF subs[i].pollCount <= 10 THEN 2000
                   ELSE IF subs[i].pollCount <= 30 THEN 3000
                   ELSE 5000
    /\ last.op = "poll" => subs[last.src].pollInterval >= last.interval
    /\ (last.op = "post" /\ subs[last.src].pc # "rejected") =>
          /\ subs[last.src].pc = "inflight"
          /\ subs[last.src].pollCount = 0

\* the switch to 5000 ms after the 31st response
C5_Witness ==
    /\ last.op = "poll"
    /\ subs[last.src].pc = "timer"
    /\ subs[last.src].pollCount = 31
    /\ last.interval = 3000
    /\ subs[last.src].pollInterval = 5000

\* C6: a POST answered 409 with an existing task id T, a status s and a type k:
\* startTask does not throw (the caller goes on to register its listeners), the
\* record of the subject has taskId T, status s and kind k (in the lower-case spelling
\* of kinds), the poller polls T, and no remote task was created.
C6_ConflictAdoption ==
    (/\ last.op = "post"
     /\ last.response.status = 409
     /\ last.response.data.existing_task_id # NoId
     /\ last.response.data.task_status # Absent
     /\ last.response.data.task_type # Absent) =>
        LET i == last.src
            app == subs[i].appId
            conflict == last.response.data
        IN /\ subs[i].pc = "inflight"
           /\ subs[i].listening
           /\ subs[i].taskId = conflict.existing_task_id
           /\ subs[i].pollCount = 0
           /\ runningTasks[app] # NoTask
           /\ runningTasks[app].taskId = conflict.existing_task_id
           /\ runningTasks[app].status = conflict.task_status
           /\ runningTasks[app].analysisType = CanonicalKind(conflict.task_type)
           /\ runningTasks[app].appId = app
           /\ ServerActive(app) = last.active
           /\ conflict.existing_task_id \in last.active

\* a quick submit that adopts the running full task
C6_Witness ==
    /\ last.op = "post"
    /\ last.response.status = 409
    /\ last.response.data.task_status = "PROGRESS"
    /\ last.response.data.task_type = "full"
    /\ subs[last.src].analysisType = "quick"
    /\ runningTasks[subs[last.src].appId] # NoTask
    /\ runningTasks[subs[last.src].appId].analysisType = "full"
    /\ runningTasks[subs[last.src].appId].status = "PROGRESS"
    /\ subs[last.src].taskId = last.response.data.existing_task_id

\* C7: each ending has its own event kind. The step that processes a success response
\* dispatches taskCompleted; a failure or revoked response, or a failed GET,
\* taskFailed; the 150th non-terminal response, taskTimeout; every other answer
\* dispatches nothing; and a poller dispatches one event, when it ends.
C7_EndingToEventKind ==
    /\ last.op = "poll" =>
          LET i == last.src
              expected ==
                  IF last.data = PollError THEN "taskFailed"
                  ELSE IF last.data.status \in {"SUCCESS", "success"} THEN "taskCompleted"
                  ELSE IF last.data.status \in {"FAILURE", "failure", "REVOKED"}
                       THEN "taskFailed"
                  ELSE IF /\ last.data.status \in
                                {Absent, "pending", "STARTED", "PROGRESS", "progress"}
                          /\ subs[i].pollCount = 150
                       THEN "taskTimeout"
                  ELSE "none"
          IN IF expected = "none"
             THEN EventsBy(i) = {} /\ subs[i].pc # "done"
             ELSE /\ subs[i].pc = "done"
                  /\ EventsBy(i) = {Len(events)}
                  /\ LastEvent.type = expected
                  /\ LastEvent.appId = subs[i].appId
    /\ \A i \in DOMAIN subs :
          Cardinality(EventsBy(i)) = IF subs[i].pc = "done" THEN 1 ELSE 0

\* a revoked response ends in taskFailed
C7_Witness ==
    /\ PolledBody
    /\ last.data.status = "REVOKED"
    /\ LastEvent.type = "taskFailed"
    /\ LastEvent.src = last.src

\* C8: a taskFailed or taskTimeout event carries the kind of the record it removes.
C8_FailureCarriesKind ==
    (/\ last.op = "poll"
     /\ subs[last.src].pc = "done"
     /\ last.before # NoTask
     /\ LastEvent.type \in {"taskFailed", "taskTimeout"}) =>
        LastEvent.analysisType = last.before.analysisType

\* C9: a taskCompleted event whose success response names no task type carries the
\* kind of the record it removes.
C9_SuccessCarriesKind ==
    (/\ PolledBody
     /\ subs[last.src].pc = "done"
     /\ last.before # NoTask
     /\ LastEvent.type = "taskCompleted"
     /\ last.data.task_type = Absent
     /\ last.data.analysis_type = Absent) =>
        LastEvent.analysisType = last.before.analysisType

\* C10: a poll response applied to a live record that stays live: when the reported
\* progress (progress_percent, else progressPercent) is absent or is no finite number,
\* the stored progress is the one stored before; otherwise it is the reported number
\* brought into [0,100]. Every live record stores a number of 0..100.
C10_ProgressMerge ==
    /\ (PolledBody /\ last.before # NoTask /\ subs[last.src].pc # "done") =>
          LET app == subs[last.src].appId
              raw == IF last.data.progress_percent.k # "absent"
                     THEN last.data.progress_percent
                     ELSE last.data.progressPercent
              reported == IF raw.k = "num" THEN raw.n
                          ELSE IF raw.k = "str" /\ raw.s = "42" THEN 42
                          ELSE 0 - 1000
              finite == raw.k = "num" \/ (raw.k = "str" /\ raw.s = "42")
          IN /\ runningTasks[app] # NoTask
             /\ runningTasks[app].progress =
                   IF ~finite THEN last.before.progress
                   ELSE IF reported < 0 THEN 0
                   ELSE IF reported > 100 THEN 100
                   ELSE reported
    /\ \A a \in Apps :
          runningTasks[a] # NoTask => runningTasks[a].progress \in 0..100

\* a non-numeric progress_percent leaves the stored 42 in place
C10_Witness ==
    /\ PolledBody
    /\ last.data.progress_percent = Str("abc")
    /\ last.before # NoTask
    /\ last.before.progress = 42
    /\ runningTasks[subs[last.src].appId] # NoTask
    /\ runningTasks[subs[last.src].appId].progress = 42

\* C11: a POST that fails with anything but a 409 naming an existing task: startTask
\* rethrows (the caller registers no listener), the registry, the result store and
\* globalLoading are as before, no poller was started and no event dispatched.
C11_RejectedSubmitChangesNothing ==
    (/\ last.op = "post"
     /\ last.response.status # 200
     /\ ~(last.response.status = 409 /\ last.response.data.existing_task_id # NoId)) =>
        LET i == last.src
        IN /\ subs[i].pc = "rejected"
           /\ ~subs[i].listening
           /\ subs[i].taskId = NoId
           /\ subs[i].pollCount = 0
           /\ runningTasks = last.pre.registry
           /\ taskResults = last.pre.results
           /\ globalLoading = last.pre.loading
           /\ Len(events) = last.pre.nEvents

\* a 409 without an existing task id, rejected while another subject's task is live
C11_Witness ==
    /\ last.op = "post"
    /\ last.response.status = 409
    /\ last.response.data.existing_task_id = NoId
    /\ subs[last.src].pc = "rejected"
    /\ \E a \in Apps : runningTasks[a] # NoTask
    /\ globalLoading

\* C12: a GET that fails is not retried: right after the failure was handled the
\* subject has no record, the poller dispatched taskFailed carrying the error's
\* message as its only event, and it has neither a timer nor a request pending.
C12_PollErrorEndsLifecycle ==
    (last.op = "poll" /\ last.data = PollError) =>
        LET i == last.src
        IN /\ runningTasks[subs[i].appId] = NoTask
           /\ subs[i].pc = "done"
           /\ EventsBy(i) = {Len(events)}
           /\ LastEvent.type = "taskFailed"
           /\ LastEvent.appId = subs[i].appId
           /\ LastEvent.error = [message |-> "Network Error"]
           /\ Len(events) = last.pre.nEvents + 1

\* the first GET after a backoff wait fails, while the record is live
C12_Witness ==
    /\ last.op = "poll"
    /\ last.data = PollError
    /\ last.before # NoTask
    /\ subs[last.src].pollCount >= 1
    /\ runningTasks[subs[last.src].appId] = NoTask
    /\ LastEvent.error = [message |-> "Network Error"]

\* C13: when no state update is pending, globalLoading is true exactly when the
\* registry holds a record.
C13_LoadingIffRegistryNonEmpty ==
    Committed => (globalLoading <=> (MapSize(runningTasks) > 0))

\* C14: right after a poller processed a success response for a subject,
\* getTaskResult of that subject is that response's payload, whatever was stored
\* before and whether or not the subject had a record, and the results of the other
\* subjects are as before; a submit (its POST answered in any way) leaves the store as
\* it was; and a stored result always is the payload of a taskCompleted event of its
\* subject.
C14_ResultStore ==
    /\ (PolledBody /\ last.data.status \in {"SUCCESS", "success"}) =>
          LET app == subs[last.src].appId
          IN /\ getTaskResult(app) = last.data
             /\ runningTasks[app] = NoTask
             /\ \A a \in Apps \ {app} : getTaskResult(a) = last.pre.results[a]
    /\ last.op = "post" => taskResults = last.pre.results
    /\ \A a \in Apps :
          getTaskResult(a) # NoData =>
             \E n \in DOMAIN events :
                /\ events[n].type = "taskCompleted"
                /\ events[n].appId = a
                /\ events[n].result = getTaskResult(a)

\* a later success of the subject replaces the payload of an earlier cycle
C14_Witness ==
    /\ PolledBody
    /\ last.data.status = "SUCCESS"
    /\ last.pre.results[subs[last.src].appId] # NoData
    /\ last.pre.results[subs[last.src].appId] # last.data
    /\ last.before # NoTask
    /\ getTaskResult(subs[last.src].appId) = last.data

\* C15: a poll that is not answered with success - a failure or revoked response, a
\* failed GET, the 150th non-terminal response, or any response that continues the
\* chain - leaves the result store exactly as it was: nothing is stored for the
\* subject and no result of an earlier cycle, of any subject, is altered or removed.
C15_FailureLeavesResults ==
    (last.op = "poll" /\ ~(PolledBody /\ last.data.status \in {"SUCCESS", "success"})) =>
        taskResults = last.pre.results

\* a cycle ends in failure while the result of an earlier cycle is stored
C15_Witness ==
    /\ last.op = "poll"
    /\ subs[last.src].pc = "done"
    /\ LastEvent.type = "taskFailed"
    /\ LastEvent.src = last.src
    /\ last.pre.results[subs[last.src].appId] # NoData
    /\ taskResults = last.pre.results

\* the last step accepted (200, or 409 adopted) a submit that was made after a
\* lifecycle of its subject had ended
ResubmitAccepted ==
    /\ last.op = "post"
    /\ subs[last.src].resubmit
    /\ subs[last.src].pc # "rejected"

\* C16 as stated: a submit made after a lifecycle of its subject ended runs a fresh
\* cycle - a record with status pending and progress 0, a counter at 0 and an
\* interval of 2000 ms.
C16_ResubmitStartsPending ==
    ResubmitAccepted =>
        LET i == last.src
            app == subs[i].appId
        IN /\ subs[i].pc = "inflight"
           /\ subs[i].pollCount = 0
           /\ subs[i].pollInterval = 2000
           /\ runningTasks[app] # NoTask
           /\ runningTasks[app].progress = 0
           /\ runningTasks[app].status = "pending"

\* C16 amended: such a submit runs a fresh cycle - a record with progress 0, a counter
\* at 0, an interval of 2000 ms and no event of its own, whatever the counter,
\* interval and outcome of the earlier cycle; the record's status is pending when the
\* POST created a task, and the status the 409 response reports (pending if it reports
\* none) when the job system still runs the task of the earlier cycle.
C16_ResubmitStartsFreshCycle ==
    ResubmitAccepted =>
        LET i == last.src
            app == subs[i].appId
        IN /\ subs[i].pc = "inflight"
           /\ subs[i].pollCount = 0
           /\ subs[i].pollInterval = 2000
           /\ EventsBy(i) = {}
           /\ runningTasks[app] # NoTask
           /\ runningTasks[app].progress = 0
           /\ runningTasks[app].taskId = subs[i].taskId
           /\ runningTasks[app].status =
                 IF last.response.status = 200 THEN "pending"
                 ELSE IF last.response.data.task_status = Absent THEN "pending"
                 ELSE last.response.data.task_status

\* after a cycle that ran into the iteration cap (counter 150, interval 5000 ms), a
\* new submit of the subject creates a task and starts at 0 and 2000 ms
C16_Witness ==
    /\ ResubmitAccepted
    /\ last.response.status = 200
    /\ \E j \in DOMAIN subs :
          /\ j # last.src
          /\ subs[j].appId = subs[last.src].appId
          /\ subs[j].pc = "done"
          /\ subs[j].pollCount = 150
          /\ subs[j].pollInterval = 5000
    /\ subs[last.src].pollCount = 0
    /\ subs[last.src].pollInterval = 2000
    /\ runningTasks[subs[last.src].appId].status = "pending"

\* C17: a subject never has two poller chains: no two of its pollers have a request
\* in flight or a timer pending at the same time.
C17_OnePollerChainPerSubject ==
    \A i, j \in DOMAIN subs :
        (/\ i # j
         /\ subs[i].appId = subs[j].appId
         /\ subs[i].pc \in {"inflight", "timer"})
        => subs[j].pc \notin {"inflight", "timer"}

\* C18: clearTaskResult(S) leaves S without a stored result and leaves the results of
\* the other subjects, the registry, globalLoading and the bus as they were; when S
\* had no stored result (never stored, or cleared before) nothing changes.
C18_ClearOnlyOwnResult ==
    last.op = "clear" =>
        /\ getTaskResult(last.appId) = NoData
        /\ \A a \in Apps \ {last.appId} : getTaskResult(a) = last.pre.results[a]
        /\ runningTasks = last.pre.registry
        /\ globalLoading = last.pre.loading
        /\ Len(events) = last.pre.nEvents
        /\ last.pre.results[last.appId] = NoData => taskResults = last.pre.results

\* the result of one subject is cleared while the other subject's stays stored
C18_Witness ==
    /\ last.op = "clear"
    /\ last.pre.results[last.appId] # NoData
    /\ getTaskResult(last.appId) = NoData
    /\ \E a \in Apps \ {last.appId} : getTaskResult(a) # NoData

\* C19: whatever the status string of a poll response, the poller afterwards either
\* has its next poll scheduled, or has ended with the record removed and an event
\* dispatched; no poller is stopped without an ending.
C19_PollerStopsOnlyByEnding ==
    /\ last.op = "poll" =>
          LET i == last.src
          IN \/ subs[i].pc = "timer"
             \/ /\ subs[i].pc = "done"
                /\ runningTasks[subs[i].appId] = NoTask
                /\ EventsBy(i) # {}
    /\ \A i \in DOMAIN subs : subs[i].pc \in {"post", "rejected", "inflight", "timer", "done"}

\* C20: when every request settles and every timer fires, every poller that was
\* started ends, and every record in the registry is eventually removed.
C20_EveryLifecycleEnds ==
    /\ \A i \in 1..MaxSubmits :
          (i \in DOMAIN subs /\ subs[i].pc \in {"inflight", "timer"})
             ~> (/\ i \in DOMAIN subs
                 /\ subs[i].pc = "done"
                 /\ EventsBy(i) # {}
                 /\ subs[i].pollCount <= 150)
    /\ \A a \in Apps : (runningTasks[a] # NoTask) ~> (runningTasks[a] = NoTask)

\* C21: a poll response or outcome of the poller of remote task T changes or removes
\* the record of its subject only when that record carries task id T.
C21_OnlyOwnPollerWritesRecord ==
    (/\ last.op = "poll"
     /\ last.before # NoTask
     /\ runningTasks[subs[last.src].appId] # last.before)
        => last.before.taskId = subs[last.src].taskId

\* the place of a status in absent -> pending -> (started|progress)* -> terminal
StatusRank(status) ==
    CASE status \in {"pending", "PENDING"} -> 0
      [] status \in {"started", "STARTED", "progress", "PROGRESS"} -> 1
      [] OTHER -> 2

\* C22: the status of a live record only moves forward: a poll response never takes
\* the record of a subject from started or progress back to pending, and the record
\* adopted from a 409 response starts from the status that response reports.
C22_StatusMovesForward ==
    /\ (/\ PolledBody
        /\ last.before # NoTask
        /\ runningTasks[subs[last.src].appId] # NoTask)
          => StatusRank(runningTasks[subs[last.src].appId].status)
                >= StatusRank(last.before.status)
    /\ (/\ last.op = "post"
        /\ last.response.status = 409
        /\ subs[last.src].pc # "rejected"
        /\ last.response.data.task_status # Absent)
          => runningTasks[subs[last.src].appId].status = last.response.data.task_status

\* the last step dispatched an outcome event
Dispatched == last.op = "poll" /\ Len(events) > last.pre.nEvents

\* C23: once an outcome event for subject S is dispatched, every listener set that
\* handleStartAnalysis registered for S is deregistered and the sets registered for
\* other subjects stay as they were; a submission whose own poller ended, and one
\* whose POST was not accepted, has no listener registered, however many cycles ran.
C23_ListenersDeregistered ==
    /\ Dispatched =>
          \A j \in DOMAIN subs :
              IF subs[j].appId = LastEvent.appId
              THEN ~subs[j].listening
              ELSE subs[j].listening = last.pre.subs[j].listening
    /\ \A j \in DOMAIN subs :
          subs[j].listening => subs[j].pc \notin {"post", "rejected", "done"}

\* an event for one subject finds the listeners of both subjects registered: the
\* set of its subject is removed, the other stays
C23_Witness ==
    /\ Dispatched
    /\ \E j \in DOMAIN subs :
          /\ subs[j].appId = LastEvent.appId
          /\ last.pre.subs[j].listening
          /\ ~subs[j].listening
    /\ \E j \in DOMAIN subs :
          /\ subs[j].appId # LastEvent.appId
          /\ last.pre.subs[j].listening
          /\ subs[j].listening

\* C24: a poll response processed for a subject that has no record leaves the
\* registry as it was: no record is created for the subject, no other is altered.
C24_PollWithoutRecordIsNoOp ==
    (PolledBody /\ last.before = NoTask) => runningTasks = last.pre.registry

\* the answer 'PROGRESS' reaches a poller whose record was removed by the ending of
\* another poller of the subject
C24_Witness ==
    /\ PolledBody
    /\ last.before = NoTask
    /\ last.data.status = "PROGRESS"
    /\ subs[last.src].pc = "timer"
    /\ runningTasks[subs[last.src].appId] = NoTask

\* C25: a step of the lifecycle of subject A - the answer of its POST, a poll update,
\* an outcome, the timeout - leaves the record and the stored result of every other
\* subject B, and the counter and the interval of B's pollers, as they were.
C25_OtherSubjectUntouched ==
    last.op \in {"post", "poll"} =>
        \A b \in Apps \ {subs[last.src].appId} :
            /\ runningTasks[b] = last.pre.registry[b]
            /\ taskResults[b] = last.pre.results[b]
            /\ \A j \in DOMAIN subs :
                  subs[j].appId = b =>
                      /\ subs[j].pollCount = last.pre.subs[j].pollCount
                      /\ subs[j].pollInterval = last.pre.subs[j].pollInterval
                      /\ subs[j].pc = last.pre.subs[j].pc

\* the poller of one subject ends between two polls of the other subject's poller,
\* whose record is live
C25_Witness ==
    /\ Dispatched
    /\ \E j \in DOMAIN subs :
          /\ subs[j].appId # subs[last.src].appId
          /\ subs[j].pc = "timer"
          /\ subs[j].pollCount > 0
          /\ runningTasks[subs[j].appId] # NoTask
          /\ runningTasks[subs[j].appId].status = "progress"

\* the status enum of a task record
CanonicalStatuses == {"pending", "started", "progress", "success", "failure", "revoked"}

\* a status in its lower-case spelling, written out
CanonicalStatus(st) ==
    CASE st \in {"pending", "PENDING"}   -> "pending"
      [] st \in {"started", "STARTED"}   -> "started"
      [] st \in {"progress", "PROGRESS"} -> "progress"
      [] st \in {"success", "SUCCESS"}   -> "success"
      [] st \in {"failure", "FAILURE"}   -> "failure"
      [] st \in {"revoked", "REVOKED"}   -> "revoked"
      [] OTHER -> st

\* C26: the status of every live record is one of pending, started, progress,
\* success, failure, revoked in lower case, the record adopted from a 409 included
\* (stated for the statuses the job system may report: the case variants of the six).
C26_StatusIsCanonical ==
    \A a \in Apps :
        (/\ runningTasks[a] # NoTask
         /\ CanonicalStatus(runningTasks[a].status) \in CanonicalStatuses)
            => runningTasks[a].status \in CanonicalStatuses

\* C27: a poll response whose status is a case variant of one of the six statuses is
\* handled as its lower-case form: a running status is stored in lower case in the
\* record and the poller goes on (or times out at the cap), success ends with
\* taskCompleted, failure and revoked end with taskFailed.
C27_StatusCaseInsensitive ==
    (/\ PolledBody
     /\ last.data.status # Absent
     /\ CanonicalStatus(last.data.status) \in CanonicalStatuses)
        => LET i == last.src
               canon == CanonicalStatus(last.data.status)
               ended(type) ==
                   /\ subs[i].pc = "done"
                   /\ Dispatched
                   /\ LastEvent.src = i
                   /\ LastEvent.type = type
           IN /\ canon = "success" => ended("taskCompleted")
              /\ canon \in {"failure", "revoked"} => ended("taskFailed")
              /\ canon \in {"pending", "started", "progress"} =>
                    \/ /\ subs[i].pc = "timer"
                       /\ last.before # NoTask =>
                             runningTasks[subs[i].appId].status = canon
                    \/ subs[i].pollCount = 150 /\ ended("taskTimeout")

\* the answer 'STARTED' is stored as 'started' and the poller goes on
C27_Witness ==
    /\ PolledBody
    /\ last.data.status = "STARTED"
    /\ last.before # NoTask
    /\ runningTasks[subs[last.src].appId].status = "started"
    /\ subs[last.src].pc = "timer"

\* the fixed table of step descriptions, by canonical status
StepTable(status) ==
    CASE status \in {"pending", "started"} -> "Queued for processing..."
      [] status = "progress" -> "Analyzing reviews..."
      [] status = "success" -> "Analysis complete!"
      [] status \in {"failure", "revoked"} -> "Analysis failed"
      [] OTHER -> "Processing..."

\* C28: after a poll response is applied to a live record, the step description of
\* the record is the result message of the response when it has one, and the table
\* entry of the normalized status otherwise.
C28_StepDescription ==
    (/\ PolledBody
     /\ last.before # NoTask
     /\ runningTasks[subs[last.src].appId] # NoTask)
        => runningTasks[subs[last.src].appId].step =
              IF last.data.result_message # Absent
              THEN last.data.result_message
              ELSE StepTable(CanonicalStatus(
                       IF last.data.status = Absent THEN "pending" ELSE last.data.status))

\* the count a response reports under the key snake, else under the key camel
ReportedCount(snake, camel) == IF snake.k # "absent" THEN snake ELSE camel

\* what a count of the record is after a response that reports raw, when the
\* record held stored and a record without a count takes missing
MergedCount(raw, stored, missing) ==
    IF raw.k = "num" THEN Num(IF raw.n >= 0 THEN raw.n ELSE 0)
    ELSE IF stored.k = "absent" THEN missing
    ELSE stored

\* the stored counts are never negative
CountsNonNegative ==
    \A a \in Apps :
        runningTasks[a] # NoTask =>
            /\ runningTasks[a].currentReviews.n >= 0
            /\ runningTasks[a].totalReviews.n >= 0

\* the last step applied a poll response to a live record that is still there
PollApplied ==
    /\ PolledBody
    /\ last.before # NoTask
    /\ runningTasks[subs[last.src].appId] # NoTask

\* C29 as stated: a processed or target count that is absent or not a number
\* leaves the stored count as it was, a reported count v is stored as max(v, 0), and
\* the stored counts are never negative.
C29_CountsKeptOrClamped ==
    /\ CountsNonNegative
    /\ PollApplied =>
          LET task == runningTasks[subs[last.src].appId]
              d == last.data
          IN /\ task.currentReviews =
                   MergedCount(ReportedCount(d.current_reviews, d.currentReviews),
                               last.before.currentReviews, AbsentNum)
             /\ task.totalReviews =
                   MergedCount(ReportedCount(d.target_reviews, d.totalReviews),
                               last.before.totalReviews, AbsentNum)

\* C29 amended: as stated, except that a record that holds no count yet takes 0 as
\* its processed count and 1000 as its target count from a response that reports none.
C29_CountsKeptDefaultedOrClamped ==
    /\ CountsNonNegative
    /\ PollApplied =>
          LET task == runningTasks[subs[last.src].appId]
              d == last.data
          IN /\ task.currentReviews =
                   MergedCount(ReportedCount(d.current_reviews, d.currentReviews),
                               last.before.currentReviews, Num(0))
             /\ task.totalReviews =
                   MergedCount(ReportedCount(d.target_reviews, d.totalReviews),
                               last.before.totalReviews, Num(1000))

\* a response without counts leaves the 50 of 120 of the response before it in place
C29_Witness ==
    /\ PollApplied
    /\ last.data.current_reviews = AbsentNum /\ last.data.currentReviews = AbsentNum
    /\ last.data.target_reviews = AbsentNum /\ last.data.totalReviews = AbsentNum
    /\ last.before.currentReviews = Num(50)
    /\ last.before.totalReviews = Num(120)
    /\ runningTasks[subs[last.src].appId].currentReviews = Num(50)
    /\ runningTasks[subs[last.src].appId].totalReviews = Num(120)

\* the last step dispatched taskTimeout
TimedOut == Dispatched /\ LastEvent.type = "taskTimeout"

\* C30 as stated: the delays scheduled between the polls of a task that stays
\* non-terminal up to the iteration cap add up to 10 x 2000 + 20 x 3000 + 120 x 5000 =
\* 680000 ms.
C30_DelaysSumTo680000 ==
    TimedOut => subs[last.src].waited = 10 * 2000 + 20 * 3000 + 120 * 5000

\* C30 amended: they add up to 10 x 2000 + 20 x 3000 + 119 x 5000 = 675000 ms: 149
\* delays are scheduled, the 150th poll ends in the timeout without one.
C30_DelaysSumTo675000 ==
    TimedOut => subs[last.src].waited = 10 * 2000 + 20 * 3000 + 119 * 5000

\* a poller times out at its 150th poll after 675000 ms of scheduled delays
C30_Witness ==
    /\ TimedOut
    /\ subs[last.src].pollCount = 150
    /\ subs[last.src].waited = 675000

\* C31: a POST answered 409 with an existing task id and no task type: the adopted
\* record has the kind the submit asked for, and the estimated duration of that
\* kind - 300000 ms for full, 60000 ms otherwise.
C31_AdoptedKindDefaultsToRequested ==
    (/\ last.op = "post"
     /\ last.response.status = 409
     /\ last.response.data.existing_task_id # NoId
     /\ last.response.data.task_type = Absent) =>
        LET i == last.src
            task == runningTasks[subs[i].appId]
        IN /\ task # NoTask
           /\ task.analysisType = subs[i].analysisType
           /\ task.estimatedDuration =
                 IF subs[i].analysisType = "full" THEN 300000 ELSE 60000

\* a full submit adopts a task whose 409 names no type
C31_Witness ==
    /\ last.op = "post"
    /\ last.response.status = 409
    /\ last.response.data.existing_task_id # NoId
    /\ last.response.data.task_type = Absent
    /\ subs[last.src].analysisType = "full"
    /\ runningTasks[subs[last.src].appId].analysisType = "full"
    /\ runningTasks[subs[last.src].appId].estimatedDuration = 300000

\* C32: handleStartAnalysis called for a subject whose record is live in the render
\* it belongs to (isTaskRunning(appId) is true) returns early: no POST is issued and
\* startTask is not called (no submission ever starts from a render that shows the
\* record), no listeners are registered, and the registry, the result store,
\* globalLoading and the bus are left as they were.
C32_LiveRecordBlocksSubmit ==
    /\ \A i \in DOMAIN subs : subs[i].currentTask = NoTask
    /\ last.op = "click" =>
          /\ IsTaskRunning(last.appId)
          /\ subs = last.pre.subs
          /\ runningTasks = last.pre.registry
          /\ taskResults = last.pre.results
          /\ globalLoading = last.pre.loading
          /\ Len(events) = last.pre.nEvents

\* a click on the subject whose poller has a request in flight is turned away
C32_Witness ==
    /\ last.op = "click"
    /\ runningTasks[last.appId] # NoTask
    /\ \E j \in DOMAIN subs :
          /\ subs[j].appId = last.appId
          /\ subs[j].pc = "inflight"
          /\ subs[j].listening

\* C33: every outcome event of a submission is dispatched after the listeners of that
\* submission were registered, so the caller does not miss the outcome of its task:
\* a submission whose POST is not answered has no event, and once the poller of a
\* submission has dispatched its event, the listeners of that submission have
\* received an outcome event of the remote task the submission stands for.
C33_CallerHearsOwnOutcome ==
    \A i \in DOMAIN subs :
        /\ subs[i].pc \in {"post", "rejected"} => EventsBy(i) = {}
        /\ EventsBy(i) # {} =>
              /\ subs[i].heard # 0
              /\ subs[events[subs[i].heard].src].taskId = subs[i].taskId

\* C34: a poll update leaves taskId, appId, projectId, startTime and
\* estimatedDuration of the record as the submit set them, and leaves the kind as it
\* was when the response names no task type (neither task_type nor analysis_type).
C34_PollKeepsIdentity ==
    PollApplied =>
        LET task == runningTasks[subs[last.src].appId]
        IN /\ task.taskId = last.before.taskId
           /\ task.appId = last.before.appId
           /\ task.projectId = last.before.projectId
           /\ task.startTime = last.before.startTime
           /\ task.estimatedDuration = last.before.estimatedDuration
           /\ (last.data.task_type = Absent /\ last.data.analysis_type = Absent)
                 => task.analysisType = last.before.analysisType

\* a response naming FULL turns the kind of a quick record to full; its estimated
\* duration stays that of the submit
C34_Witness ==
    /\ PollApplied
    /\ last.data.task_type = "FULL"
    /\ last.before.analysisType = "quick"
    /\ runningTasks[subs[last.src].appId].analysisType = "full"
    /\ runningTasks[subs[last.src].appId].estimatedDuration = 60000
    /\ runningTasks[subs[last.src].appId].startTime = last.before.startTime

\* C35: a poll response without a status field is handled as pending: the status of
\* the record becomes pending, the iteration counter goes up by one, and the next
\* poll is scheduled - or, at the 150th iteration, the timeout outcome is taken.
C35_MissingStatusIsPending ==
    (PolledBody /\ last.data.status = Absent) =>
        LET i == last.src
        IN /\ subs[i].pollCount = last.pre.subs[i].pollCount + 1
           /\ \/ /\ subs[i].pollCount < 150
                 /\ subs[i].pc = "timer"
                 /\ last.before # NoTask =>
                       /\ runningTasks[subs[i].appId] # NoTask
                       /\ runningTasks[subs[i].appId].status = "pending"
              \/ /\ subs[i].pollCount = 150
                 /\ subs[i].pc = "done"
                 /\ TimedOut
                 /\ LastEvent.src = i
                 /\ runningTasks[subs[i].appId] = NoTask

\* the 150th response in a row has no status: the poller times out
C35_Witness ==
    /\ PolledBody
    /\ last.data.status = Absent
    /\ last.before # NoTask
    /\ subs[last.src].pollCount = 150
    /\ TimedOut

\* C36: in DeepAnalysisProgress onComplete is called at most once per started
\* or resumed task, also when several fetches of its status are in flight and
\* more than one of them sees success; it is never called for a task that
\* ended in failure or revoked; and right after a terminal status or a fetch
\* error was processed no polling interval is armed.
C36_OnCompleteOncePerTask ==
    /\ \A t \in DeepTasks : deep.onCompleteCalls[t] <= 1
    /\ \A t \in DeepTasks : deep.onCompleteCalls[t] > 0 => deep.remote[t] = "SUCCESS"
    /\ deep.step \in {"terminal", "error"} => deep.intervals = {}

=============================================================================
